---------------------------- MODULE Spec2Model ----------------------------
(***************************************************************************)
(* Model of the WebXR target-shooting game: the GameManager session        *)
(* controller (src/src/game/GameManager.js), the arena code of the main    *)
(* script (src/unnamed/part_001: targets, bullets, frame loop) and the     *)
(* button handlers of the UI (src/unnamed/part_000).                       *)
(*                                                                         *)
(* Units: time in seconds, score in points.  The positions of the bullets  *)
(* are not kept: the targets are placed by Math.random and the bullets are *)
(* aimed by the player, so for every bullet the set of visible targets     *)
(* closer than the hit distance is an input of the frame.  gsap tweens and *)
(* setTimeout callbacks run on the wall clock, which the frame delta does  *)
(* not determine: their completion is an input too, in creation order.     *)
(*                                                                         *)
(* updateTargets moves every target by itself, so the position and the     *)
(* direction of one target are kept, those of the first slot of the pool:  *)
(* positions in tenths of a unit, direction components in fifths (so that  *)
(* (3, 4) is the unit vector (0.6, 0.8)), speeds in halves of a unit per   *)
(* second.  With these units position += direction * moveSpeed * delta is  *)
(* exact on the integers.                                                  *)
(***************************************************************************)
EXTENDS Integers, Sequences, FiniteSets, TLC

VARIABLES
    state,          \* GameManager.state
    currentLevel,   \* GameManager.currentLevel (0-based index into LEVELS)
    score,          \* GameManager.score
    timeRemaining,  \* GameManager.timeRemaining
    highScores,     \* GameManager.highScores, a JS value (see JsArray/JsNull)
    settings,       \* GameManager.settings
    savedScores,    \* localStorage['webxr-high-scores'], a JSON text
    savedSettings,  \* localStorage['webxr-game-settings'], a JSON text
    targets,        \* part_001 targets[]: the pool, in creation order
    bullets,        \* part_001 bullets{}: live bullets, in insertion order
    targetModel,    \* part_001 targetModel: TRUE once target.glb is loaded
    tweens,         \* running gsap shrink tweens: batches of target indexes
    timers,         \* pending setTimeout respawns: target indexes
    motion,         \* targets[0]: position.x/y and userData (moveDirection.x/y,
                    \* moveSpeed, isMoving)
    events,         \* observer callbacks fired by the last operation, in order
    thrown,         \* TRUE iff the last operation ended with an exception
    last,           \* the last operation and its input
    prev,           \* the controller fields as they were before it
    exits,          \* state-changed(LEVEL_COMPLETE | GAME_OVER) notifications
                    \* fired since PLAYING was last entered
    calls           \* number of operations performed (bounded by MaxCalls)

vars == <<state, currentLevel, score, timeRemaining, highScores, settings,
          savedScores, savedSettings, targets, bullets, targetModel, tweens,
          timers, motion, events, thrown, last, prev, exits, calls>>

-----------------------------------------------------------------------------
(* Bounds of the model *)

MaxCalls == 5          \* operations per run of the controller specification
MaxFrames == 4         \* frames per run of the frame loop
MaxBullets == 1        \* live bullets
MaxInRange == 2        \* targets within hit distance of one bullet
MaxPending == 2        \* hits whose shrink tween or respawn is pending
MaxPlayFrames == 1     \* frames with clicks and hits before a level times out

-----------------------------------------------------------------------------
(* GameManager.js: GameState, LEVELS *)

MENU == "menu"
PLAYING == "playing"
LEVEL_COMPLETE == "level_complete"
GAME_OVER == "game_over"

GameState == {MENU, PLAYING, LEVEL_COMPLETE, GAME_OVER}

\* targetSpeed in halves of a unit per second: 3 is 1.5, 5 is 2.5
LEVELS ==
    << [id |-> 1, targetCount |-> 3, targetSpeed |-> 0, scoreToComplete |-> 30,
        timeLimit |-> 60, movingTargets |-> FALSE],
       [id |-> 2, targetCount |-> 5, targetSpeed |-> 0, scoreToComplete |-> 80,
        timeLimit |-> 60, movingTargets |-> FALSE],
       [id |-> 3, targetCount |-> 5, targetSpeed |-> 0, scoreToComplete |-> 150,
        timeLimit |-> 45, movingTargets |-> FALSE],
       [id |-> 4, targetCount |-> 5, targetSpeed |-> 3, scoreToComplete |-> 200,
        timeLimit |-> 60, movingTargets |-> TRUE],
       [id |-> 5, targetCount |-> 7, targetSpeed |-> 5, scoreToComplete |-> 300,
        timeLimit |-> 90, movingTargets |-> TRUE] >>

\* LEVELS.length
LevelCount == Len(LEVELS)

\* LEVELS[i] for a 0-based JS index i
Level(i) == LEVELS[i + 1]

-----------------------------------------------------------------------------
(* JavaScript values and JSON texts of the high-score table *)

\* the JS value null (JSON.parse of the text "null")
JsNull == [isArray |-> FALSE, items |-> <<>>]

\* a JS array of numbers
JsArray(s) == [isArray |-> TRUE, items |-> s]

\* localStorage.getItem: no entry under the key
Missing == [kind |-> "missing", value |-> JsNull]

\* a stored text that JSON.parse rejects
Unparsable == [kind |-> "unparsable", value |-> JsNull]

\* JSON.stringify(v): the text of the value v
JSONstringify(v) == [kind |-> "json", value |-> v]

\* JSON.parse(text) for a text it accepts
JSONparse(text) == text.value

\* arr[i] for a 0-based JS index i: the element, or undefined out of range
Undefined == -1
Index(arr, i) == IF i >= 0 /\ i < Len(arr.items) THEN arr.items[i + 1] ELSE Undefined

\* a > b in JS for a number a: false when b is undefined
JsGreater(a, b) == b # Undefined /\ a > b

\* this.highScores = [0, 0, 0, 0, 0] of the constructor
DefaultHighScores == JsArray(<<0, 0, 0, 0, 0>>)

\* JS values of a setting: the booleans, and a string where a boolean belongs
JsFalse == "false"
JsTrue == "true"
JsYes == "'yes'"

\* !v
JsNot(v) == IF v = JsFalse THEN JsTrue ELSE JsFalse

\* DEFAULT_SETTINGS; musicVolume and sfxVolume, which no code reads, are left
\* out
DEFAULT_SETTINGS == [leftHandedMode |-> JsFalse]

\* { ...DEFAULT_SETTINGS, ...parsed }: the own properties of the parsed value
\* override the defaults; null has none
Spread(defaults, parsed) ==
    IF "leftHandedMode" \in DOMAIN parsed
    THEN [defaults EXCEPT !.leftHandedMode = parsed.leftHandedMode]
    ELSE defaults

\* loadSettings: each stored text that is there and parses replaces the
\* default, whatever it parses to; a SyntaxError is caught and ends the
\* loading, so that unparsable settings leave the stored scores unread
loadSettings(storedSettings, storedScores) ==
    IF storedSettings.kind = "unparsable"
    THEN [settings |-> DEFAULT_SETTINGS, highScores |-> DefaultHighScores]
    ELSE [settings |-> IF storedSettings.kind = "json"
                       THEN Spread(DEFAULT_SETTINGS, JSONparse(storedSettings))
                       ELSE DEFAULT_SETTINGS,
          highScores |-> IF storedScores.kind = "json"
                         THEN JSONparse(storedScores)
                         ELSE DefaultHighScores]

\* what localStorage may hold when the page is loaded: the settings text and
\* the high-score text
Stored ==
    { [settings |-> Missing, scores |-> Missing],
      [settings |-> Missing, scores |-> Unparsable],
      [settings |-> Missing, scores |-> JSONstringify(JsNull)],
      [settings |-> Missing, scores |-> JSONstringify(JsArray(<<50>>))],
      [settings |-> Unparsable, scores |-> JSONstringify(JsArray(<<50>>))],
      [settings |-> JSONstringify([leftHandedMode |-> JsYes]),
       scores |-> Missing] }

-----------------------------------------------------------------------------
(* The program state as one record, so that nested calls compose *)

\* what the calls of Math.random place a target with: a position within
\* x in [-5, 5], y in [1, 3] and a unit vector as direction.  Centre is the
\* placement where the position of the target is not looked at.
Centre == [x |-> 0, y |-> 20, dx |-> 3, dy |-> 4]

\* targets[0] before the pool has a first slot
NoMotion ==
    [x |-> 0, y |-> 0, dx |-> 0, dy |-> 0, moveSpeed |-> 0, isMoving |-> FALSE]

World ==
    [state |-> state, currentLevel |-> currentLevel, score |-> score,
     timeRemaining |-> timeRemaining, highScores |-> highScores,
     settings |-> settings, savedScores |-> savedScores,
     savedSettings |-> savedSettings, targets |-> targets, bullets |-> bullets,
     tweens |-> tweens, timers |-> timers, motion |-> motion,
     events |-> <<>>, thrown |-> FALSE, exits |-> exits, reenter |-> FALSE,
     random |-> Centre]

\* the controller fields, kept in prev
Session(w) ==
    [state |-> w.state, currentLevel |-> w.currentLevel, score |-> w.score,
     timeRemaining |-> w.timeRemaining, highScores |-> w.highScores]

\* a callback as the observer sees it: its kind and, in the field named after
\* the kind, the value passed
Event(type, value) ==
    CASE type = "state" -> [type |-> type, state |-> value]
      [] type = "score" -> [type |-> type, score |-> value]
      [] type = "time" -> [type |-> type, time |-> value]
      [] type = "aim" -> [type |-> type, aim |-> value]
      [] OTHER -> [type |-> type, hit |-> value]

Fire(w, type, value) == [w EXCEPT !.events = Append(@, Event(type, value))]

-----------------------------------------------------------------------------
(* part_001: the arena's reaction to a state change *)

\* targets.forEach((target) => { target.visible = false; })
HideAll(ts) == [i \in 1..Len(ts) |-> [ts[i] EXCEPT !.visible = FALSE]]

\* initializeTargets: all hidden, then slots 0..targetCount-1 shown; a missing
\* slot is cloned from targetModel, and skipped while the model is not loaded.
\* A slot that is shown is placed at random and takes the speed and the
\* movement flag of the level.
initializeTargets(w, levelConfig) ==
    LET n == Len(w.targets)
        count == levelConfig.targetCount
        size == IF targetModel /\ count > n THEN count ELSE n
    IN [w EXCEPT !.targets = [i \in 1..size |-> [visible |-> i <= count]],
                 !.motion = IF size >= 1 /\ count >= 1
                            THEN [x |-> w.random.x, y |-> w.random.y,
                                  dx |-> w.random.dx, dy |-> w.random.dy,
                                  moveSpeed |-> levelConfig.targetSpeed,
                                  isMoving |-> levelConfig.movingTargets]
                            ELSE @]

\* clearBullets
clearBullets(w) == [w EXCEPT !.bullets = <<>>]

\* getCurrentLevelConfig
getCurrentLevelConfig(w) ==
    IF w.currentLevel < 0 \/ w.currentLevel >= LevelCount
    THEN Level(0)
    ELSE Level(w.currentLevel)

\* onGameStateChange (the UI panels it shows and hides follow the state)
onGameStateChange(w, newState) ==
    CASE newState = MENU ->
            [clearBullets(w) EXCEPT !.targets = HideAll(@)]
      [] newState = PLAYING ->
            initializeTargets(w, getCurrentLevelConfig(w))
      [] OTHER -> w

-----------------------------------------------------------------------------
(* GameManager.js: the session controller *)

\* saveSettings: the settings and the high-score table are written to
\* localStorage
saveSettings(w) ==
    [w EXCEPT !.savedSettings = JSONstringify(w.settings),
              !.savedScores = JSONstringify(w.highScores)]

\* setSetting for the key leftHandedMode (onSettingsChange has no observer)
setSetting(w, value) == saveSettings([w EXCEPT !.settings.leftHandedMode = value])

\* toggleLeftHandedMode
toggleLeftHandedMode(w) == setSetting(w, JsNot(w.settings.leftHandedMode))

\* setState: the field, then the onStateChange observer (onGameStateChange)
setState(w, newState) ==
    LET w1 == [w EXCEPT !.state = newState,
                        !.exits = IF newState \in {LEVEL_COMPLETE, GAME_OVER}
                                  THEN @ + 1
                                  ELSE IF newState = PLAYING THEN 0 ELSE @]
    IN onGameStateChange(Fire(w1, "state", newState), newState)

\* goToMenu
goToMenu(w) == setState(w, MENU)

\* this.onScoreChange(score) and this.onTimeChange(timeRemaining): the observer
\* is told the value.  The observers of the game only redraw the HUD; an
\* observer that re-enters the controller (w.reenter) calls goToMenu.
onScoreChange(w, value) ==
    LET w1 == Fire(w, "score", value)
    IN IF w.reenter THEN goToMenu(w1) ELSE w1

onTimeChange(w, value) ==
    LET w1 == Fire(w, "time", value)
    IN IF w.reenter THEN goToMenu(w1) ELSE w1

\* startLevel with the score reset left out
startLevel_keepsScore(w, levelIndex) ==
    LET index == IF levelIndex < 0 \/ levelIndex >= LevelCount
                 THEN 0 ELSE levelIndex
        w1 == [w EXCEPT !.currentLevel = index]
        w2 == [w1 EXCEPT !.timeRemaining = getCurrentLevelConfig(w1).timeLimit]
        w3 == setState(w2, PLAYING)
    IN onScoreChange(w3, w3.score)

\* startLevel with the upper half of the range check left out
startLevel_noUpperCheck(w, levelIndex) ==
    LET index == IF levelIndex < 0 THEN 0 ELSE levelIndex
        w1 == [w EXCEPT !.currentLevel = index, !.score = 0]
        w2 == [w1 EXCEPT !.timeRemaining = getCurrentLevelConfig(w1).timeLimit]
        w3 == setState(w2, PLAYING)
    IN onScoreChange(w3, w3.score)

\* startLevel with the range check left out
startLevel_noClamp(w, levelIndex) ==
    LET w1 == [w EXCEPT !.currentLevel = levelIndex, !.score = 0]
        w2 == [w1 EXCEPT !.timeRemaining = getCurrentLevelConfig(w1).timeLimit]
        w3 == setState(w2, PLAYING)
    IN onScoreChange(w3, w3.score)

\* startLevel
startLevel(w, levelIndex) ==
    LET index == IF levelIndex < 0 \/ levelIndex >= LevelCount
                 THEN 0 ELSE levelIndex
        w1 == [w EXCEPT !.currentLevel = index, !.score = 0]
        w2 == [w1 EXCEPT !.timeRemaining = getCurrentLevelConfig(w1).timeLimit]
        w3 == setState(w2, PLAYING)
    IN onScoreChange(w3, w3.score)

\* completeLevel with the comparison of the high score reversed
completeLevel_reversedCompare(w) ==
    IF ~w.highScores.isArray
    THEN [w EXCEPT !.thrown = TRUE]
    ELSE LET best == Index(w.highScores, w.currentLevel)
             w1 == IF best # Undefined /\ w.score < best
                   THEN saveSettings(
                          [w EXCEPT !.highScores.items[w.currentLevel + 1] =
                                       w.score])
                   ELSE w
         IN setState(w1, LEVEL_COMPLETE)

\* completeLevel: reading highScores[currentLevel] of null is a TypeError
completeLevel(w) ==
    IF ~w.highScores.isArray
    THEN [w EXCEPT !.thrown = TRUE]
    ELSE LET w1 == IF JsGreater(w.score, Index(w.highScores, w.currentLevel))
                   THEN saveSettings(
                          [w EXCEPT !.highScores.items[w.currentLevel + 1] =
                                       w.score])
                   ELSE w
         IN setState(w1, LEVEL_COMPLETE)

\* gameOver
gameOver(w) == setState(w, GAME_OVER)

\* addScore
addScore(w, points) ==
    LET w1 == [w EXCEPT !.score = @ + points]
        w2 == onScoreChange(w1, w1.score)
    IN IF w2.score >= getCurrentLevelConfig(w2).scoreToComplete
       THEN completeLevel(w2)
       ELSE w2

\* updateTime with the call of gameOver left out
updateTime_noGameOver(w, delta) ==
    IF w.state # PLAYING
    THEN w
    ELSE LET w1 == [w EXCEPT !.timeRemaining = @ - delta]
             w2 == onTimeChange(w1, w1.timeRemaining)
         IN IF w2.timeRemaining <= 0
            THEN [w2 EXCEPT !.timeRemaining = 0]
            ELSE w2

\* updateTime with the state check left out
updateTime_noGuard(w, delta) ==
    LET w1 == [w EXCEPT !.timeRemaining = @ - delta]
        w2 == onTimeChange(w1, w1.timeRemaining)
    IN IF w2.timeRemaining <= 0
       THEN gameOver([w2 EXCEPT !.timeRemaining = 0])
       ELSE w2

\* updateTime
updateTime(w, delta) ==
    IF w.state # PLAYING
    THEN w
    ELSE LET w1 == [w EXCEPT !.timeRemaining = @ - delta]
             w2 == onTimeChange(w1, w1.timeRemaining)
         IN IF w2.timeRemaining <= 0
            THEN gameOver([w2 EXCEPT !.timeRemaining = 0])
            ELSE w2

\* nextLevel with the bound off by one
nextLevel_offByOne(w) ==
    IF w.currentLevel < LevelCount
    THEN startLevel(w, w.currentLevel + 1)
    ELSE goToMenu(w)

\* nextLevel
nextLevel(w) ==
    IF w.currentLevel < LevelCount - 1
    THEN startLevel(w, w.currentLevel + 1)
    ELSE goToMenu(w)

\* restartLevel
restartLevel(w) == startLevel(w, w.currentLevel)

-----------------------------------------------------------------------------
(* part_001: bullets, hits and the frame loop *)

bulletTimeToLive == 1

\* the points of one hit: gameManager.addScore(10)
HitPoints == 10

\* target indexes (1-based positions in the pool) that are visible
Visible(ts) == {i \in 1..Len(ts) : ts[i].visible}

\* the elements of a set of numbers in increasing order: the order in which
\* targets.filter(...).forEach visits the pool
RECURSIVE PoolOrder(_)
PoolOrder(S) ==
    IF S = {} THEN <<>>
    ELSE LET m == CHOOSE x \in S : \A y \in S : x <= y
         IN <<m>> \o PoolOrder(S \ {m})

\* the subsequence of s at the positions not in dead
RECURSIVE Without(_, _, _)
Without(s, dead, i) ==
    IF i > Len(s) THEN <<>>
    ELSE (IF i \in dead THEN <<>> ELSE <<s[i]>>) \o Without(s, dead, i + 1)

\* gsap.to(target.scale, {..., onComplete}): a shrink tween of target t joins
\* the tweens started since the last gsap tick (the last batch)
StartTween(w, t) ==
    [w EXCEPT !.tweens[Len(w.tweens)] = Append(@, t)]

\* handleUIInteraction: the handler of the clicked button, if any.  The level
\* buttons exist in the menu, NEXT LEVEL and MENU on the level-complete
\* screen (NEXT LEVEL only below the last level), TRY AGAIN and MENU on the
\* game-over screen.
Buttons(w) ==
    CASE w.state = MENU ->
            {[button |-> "level", index |-> i] : i \in 0..(LevelCount - 1)}
      [] w.state = LEVEL_COMPLETE ->
            {[button |-> "next", index |-> 0] :
                 x \in {y \in {0} : getCurrentLevelConfig(w).id < LevelCount}}
            \cup {[button |-> "menu", index |-> 0]}
      [] w.state = GAME_OVER ->
            {[button |-> "retry", index |-> 0], [button |-> "menu", index |-> 0]}
      [] OTHER -> {}

NoClick == [button |-> "none", index |-> 0]

handleUIInteraction(w, click) ==
    CASE click.button = "level" -> startLevel(w, click.index)
      [] click.button = "next" -> nextLevel(w)
      [] click.button = "retry" -> restartLevel(w)
      [] click.button = "menu" -> goToMenu(w)
      [] OTHER -> w

\* handleBlasterInput: a trigger click while PLAYING adds a bullet
handleBlasterInput(w, trigger) ==
    IF w.state # PLAYING \/ ~trigger
    THEN w
    ELSE [w EXCEPT !.bullets = Append(@, [timeToLive |-> bulletTimeToLive])]

\* distance < 1 found for bullet number b and target t: noted in events, with
\* the timeToLive the bullet has at the test
Hit(w, b, t) ==
    Fire(w, "hit", [bullet |-> b, target |-> t,
                    timeToLive |-> w.bullets[b].timeToLive])

\* the body of targets.filter(visible).forEach for bullet number b of the
\* snapshot and the targets ts found closer than the hit distance, in pool
\* order: every one of them deletes the bullet, starts a shrink tween and
\* adds the score; an exception of addScore ends the loop
RECURSIVE forEachTarget(_, _, _)
forEachTarget(acc, b, ts) ==
    IF ts = <<>> \/ acc.w.thrown
    THEN acc
    ELSE forEachTarget(
             [w |-> addScore(StartTween(Hit(acc.w, b, Head(ts)), Head(ts)),
                             HitPoints),
              dead |-> acc.dead \cup {b}],
             b, Tail(ts))

\* the body of Object.values(bullets).forEach for bullet number b
RECURSIVE forEachBullet(_, _, _, _)
forEachBullet(acc, b, delta, inRange) ==
    IF b > Len(acc.w.bullets) \/ acc.w.thrown
    THEN acc
    ELSE IF acc.w.bullets[b].timeToLive < 0
    THEN forEachBullet([acc EXCEPT !.dead = @ \cup {b}], b + 1, delta, inRange)
    ELSE forEachBullet(
             forEachTarget(
                 [acc EXCEPT !.w.bullets[b].timeToLive = @ - delta],
                 b, PoolOrder(inRange[b] \cap Visible(acc.w.targets))),
             b + 1, delta, inRange)

\* updateBullets with the state check left out
updateBullets_noStateCheck(w, delta, inRange) ==
    LET acc == forEachBullet([w |-> w, dead |-> {}], 1, delta, inRange)
    IN [acc.w EXCEPT !.bullets = Without(@, acc.dead, 1)]

\* updateBullets
updateBullets(w, delta, inRange) ==
    IF w.state # PLAYING
    THEN w
    ELSE LET acc == forEachBullet([w |-> w, dead |-> {}], 1, delta, inRange)
         IN [acc.w EXCEPT !.bullets = Without(@, acc.dead, 1)]

\* onComplete of a shrink tween of target t: the target is hidden and its
\* respawn is handed to setTimeout
onComplete(w, t) ==
    [w EXCEPT !.targets[t].visible = FALSE, !.timers = Append(@, t)]

RECURSIVE CompleteBatch(_, _)
CompleteBatch(w, batch) ==
    IF batch = <<>> THEN w
    ELSE CompleteBatch(onComplete(w, Head(batch)), Tail(batch))

\* gsap.ticker.tick: the k oldest batches of tweens have run their 0.3 s
RECURSIVE gsapTick(_, _)
gsapTick(w, k) ==
    IF k = 0 \/ w.tweens = <<>>
    THEN w
    ELSE gsapTick([CompleteBatch(w, Head(w.tweens)) EXCEPT !.tweens = Tail(@)],
                  k - 1)

\* the batches without the empty ones
RECURSIVE NonEmpty(_)
NonEmpty(bs) ==
    IF bs = <<>> THEN <<>>
    ELSE (IF Head(bs) = <<>> THEN <<>> ELSE <<Head(bs)>>) \o NonEmpty(Tail(bs))

\* onFrame up to the bullet loop: UI, session timer, blaster
frameInput(w, delta, click, trigger) ==
    handleBlasterInput(updateTime(handleUIInteraction(w, click), delta), trigger)

\* some bullet has a visible target closer than the hit distance: noted in
\* events when updateBullets is called
Aim(w, inRange) ==
    IF \E b \in DOMAIN inRange : inRange[b] # {}
    THEN Fire(w, "aim", TRUE)
    ELSE w

\* onFrame, the bullet loop: the tweens it starts form a new batch
frameBullets(w, delta, inRange) ==
    LET w4 == updateBullets([Aim(w, inRange) EXCEPT !.tweens = Append(@, <<>>)],
                            delta, inRange)
    IN [w4 EXCEPT !.tweens = NonEmpty(@)]

\* the arena bounds of updateTargets, in tenths
MinX == -50
MaxX == 50
MinY == 5
MaxY == 40

\* a || b for numbers: b when a is 0
JsOr(a, b) == IF a = 0 THEN b ELSE a

\* the body of the forEach of updateTargets for a target with the position
\* and userData m: the step, then the bounce
moveTarget(m, levelConfig, delta) ==
    LET moveSpeed == JsOr(m.moveSpeed, levelConfig.targetSpeed)
        x == m.x + m.dx * moveSpeed * delta
        y == m.y + m.dy * moveSpeed * delta
    IN [m EXCEPT !.x = x,
                 !.y = y,
                 !.dx = IF x < MinX \/ x > MaxX THEN -1 * @ ELSE @,
                 !.dy = IF y < MinY \/ y > MaxY THEN -1 * @ ELSE @]

\* updateTargets
updateTargets(w, delta) ==
    IF w.state # PLAYING
    THEN w
    ELSE IF ~getCurrentLevelConfig(w).movingTargets
    THEN w
    ELSE IF w.targets # <<>> /\ w.targets[1].visible /\ w.motion.isMoving
    THEN [w EXCEPT !.motion = moveTarget(@, getCurrentLevelConfig(w), delta)]
    ELSE w

\* onFrame, the end: updateTargets, then the gsap tick; an exception thrown in
\* updateBullets skips both
frameTick(w, delta, k) ==
    IF w.thrown THEN w ELSE gsapTick(updateTargets(w, delta), k)

\* onFrame
onFrame(w, delta, click, trigger, inRange, k) ==
    frameTick(frameBullets(frameInput(w, delta, click, trigger), delta, inRange),
              delta, k)

\* the callback of setTimeout(..., 500) for target t: shown again, at a
\* position chosen at random
respawn(w, t) ==
    [w EXCEPT !.targets[t].visible = TRUE,
              !.motion = IF t = 1
                         THEN [@ EXCEPT !.x = w.random.x, !.y = w.random.y]
                         ELSE @]

-----------------------------------------------------------------------------
(* Initial state: the module-level state of part_001 and the constructor of *)
(* GameManager, which ends with loadSettings                                *)

Init ==
    /\ state = MENU
    /\ currentLevel = 0
    /\ score = 0
    /\ timeRemaining = 0
    /\ \E stored \in Stored :
          /\ savedSettings = stored.settings
          /\ savedScores = stored.scores
          /\ settings = loadSettings(stored.settings, stored.scores).settings
          /\ highScores = loadSettings(stored.settings, stored.scores).highScores
    /\ targets = <<>>
    /\ bullets = <<>>
    /\ targetModel = FALSE
    /\ tweens = <<>>
    /\ timers = <<>>
    /\ motion = NoMotion
    /\ events = <<>>
    /\ thrown = FALSE
    /\ last = [op |-> "new", arg |-> 0]
    /\ prev = [state |-> MENU, currentLevel |-> 0, score |-> 0,
               timeRemaining |-> 0, highScores |-> highScores]
    /\ exits = 0
    /\ calls = 0

\* the state after an operation that took World to w (prev apart)
Commit(w, op, arg) ==
    /\ state' = w.state
    /\ currentLevel' = w.currentLevel
    /\ score' = w.score
    /\ timeRemaining' = w.timeRemaining
    /\ highScores' = w.highScores
    /\ settings' = w.settings
    /\ savedScores' = w.savedScores
    /\ savedSettings' = w.savedSettings
    /\ targets' = w.targets
    /\ bullets' = w.bullets
    /\ tweens' = w.tweens
    /\ timers' = w.timers
    /\ motion' = w.motion
    /\ events' = w.events
    /\ thrown' = w.thrown
    /\ exits' = w.exits
    /\ last' = [op |-> op, arg |-> arg]

\* the state after a call of a controller method, which prev remembers
CommitCall(w, op, arg) ==
    /\ Commit(w, op, arg)
    /\ prev' = [state |-> state, currentLevel |-> currentLevel, score |-> score,
                timeRemaining |-> timeRemaining, highScores |-> highScores]

-----------------------------------------------------------------------------
(* The controller driven through its public methods, from any state *)

\* arguments of startLevel: every catalog index, one below and one above
LevelIndexes == -1 .. LevelCount

\* arguments of addScore the contract admits: the hit value, a large value
Points == {10, 100}

\* arguments of updateTime the contract admits
TickDeltas == {0, 45}

\* arguments the contract excludes: negative points, a negative delta
NegativePoints == {-10}
NegativeDeltas == {-45}

\* target.glb finishes loading (the GLTFLoader callback of setupScene)
LoadTargetModel ==
    /\ ~targetModel
    /\ targetModel' = TRUE
    /\ UNCHANGED <<state, currentLevel, score, timeRemaining, highScores,
                   settings, savedScores, savedSettings, targets, bullets,
                   tweens, timers, motion, events, thrown, last, prev, exits,
                   calls>>

StartLevel(i) ==
    /\ calls < MaxCalls
    /\ calls' = calls + 1
    /\ \E w \in {startLevel(World, i)} : CommitCall(w, "startLevel", i)
    /\ UNCHANGED targetModel

AddScore(p) ==
    /\ calls < MaxCalls
    /\ calls' = calls + 1
    /\ \E w \in {addScore(World, p)} : CommitCall(w, "addScore", p)
    /\ UNCHANGED targetModel

Tick(d) ==
    /\ calls < MaxCalls
    /\ calls' = calls + 1
    /\ \E w \in {updateTime(World, d)} : CommitCall(w, "updateTime", d)
    /\ UNCHANGED targetModel

NextLevel ==
    /\ calls < MaxCalls
    /\ calls' = calls + 1
    /\ \E w \in {nextLevel(World)} : CommitCall(w, "nextLevel", 0)
    /\ UNCHANGED targetModel

RestartLevel ==
    /\ calls < MaxCalls
    /\ calls' = calls + 1
    /\ \E w \in {restartLevel(World)} : CommitCall(w, "restartLevel", 0)
    /\ UNCHANGED targetModel

GoToMenu ==
    /\ calls < MaxCalls
    /\ calls' = calls + 1
    /\ \E w \in {goToMenu(World)} : CommitCall(w, "goToMenu", 0)
    /\ UNCHANGED targetModel

Next ==
    \/ LoadTargetModel
    \/ \E i \in LevelIndexes : StartLevel(i)
    \/ \E p \in Points : AddScore(p)
    \/ \E d \in TickDeltas : Tick(d)
    \/ NextLevel
    \/ RestartLevel
    \/ GoToMenu

Spec == Init /\ [][Next]_vars

\* the same, with the excluded arguments passed too
NextAny ==
    \/ Next
    \/ \E p \in NegativePoints : AddScore(p)
    \/ \E d \in NegativeDeltas : Tick(d)

SpecAny == Init /\ [][NextAny]_vars

\* the controller with its settings methods called as well
SettingValues == {JsFalse, JsTrue}

SetSetting(v) ==
    /\ calls < MaxCalls
    /\ calls' = calls + 1
    /\ \E w \in {setSetting(World, v)} :
           CommitCall(w, "setSetting", IF v = JsTrue THEN 1 ELSE 0)
    /\ UNCHANGED targetModel

ToggleLeftHandedMode ==
    /\ calls < MaxCalls
    /\ calls' = calls + 1
    /\ \E w \in {toggleLeftHandedMode(World)} :
           CommitCall(w, "toggleLeftHandedMode", 0)
    /\ UNCHANGED targetModel

NextSettings ==
    \/ Next
    \/ \E v \in SettingValues : SetSetting(v)
    \/ ToggleLeftHandedMode

SpecSettings == Init /\ [][NextSettings]_vars

\* the controller with an observer installed on onScoreChange and onTimeChange
\* that re-enters it
Reentrant(w) == [w EXCEPT !.reenter = TRUE]

StartLevelReentrant(i) ==
    /\ calls < MaxCalls
    /\ calls' = calls + 1
    /\ \E w \in {startLevel(Reentrant(World), i)} : CommitCall(w, "startLevel", i)
    /\ UNCHANGED targetModel

AddScoreReentrant(p) ==
    /\ calls < MaxCalls
    /\ calls' = calls + 1
    /\ \E w \in {addScore(Reentrant(World), p)} : CommitCall(w, "addScore", p)
    /\ UNCHANGED targetModel

TickReentrant(d) ==
    /\ calls < MaxCalls
    /\ calls' = calls + 1
    /\ \E w \in {updateTime(Reentrant(World), d)} : CommitCall(w, "updateTime", d)
    /\ UNCHANGED targetModel

NextReentrant ==
    \/ Next
    \/ \E i \in LevelIndexes : StartLevelReentrant(i)
    \/ \E p \in Points : AddScoreReentrant(p)
    \/ \E d \in TickDeltas : TickReentrant(d)

SpecReentrant == Init /\ [][NextReentrant]_vars

-----------------------------------------------------------------------------
(* The program driven as it runs: frames of the render loop and timers *)

\* the frame deltas, in seconds
FrameDeltas == {1, 60}

\* number of hits whose shrink tween or respawn is pending
RECURSIVE TweenCount(_)
TweenCount(bs) == IF bs = <<>> THEN 0 ELSE Len(Head(bs)) + TweenCount(Tail(bs))

Pending(w) == Len(w.timers) + TweenCount(w.tweens)

\* the inputs of the bullet loop: for each bullet of the snapshot that is
\* collision-tested, the visible targets closer than the hit distance.  The
\* player aims at pool slots 1 and 2, which every level shows, and at slot 5,
\* which only the levels with five or more targets show.
AimedSlots == {1, 2, 5}

InRangeChoices(w) ==
    [1..Len(w.bullets) ->
        {S \in SUBSET (Visible(w.targets) \cap AimedSlots) :
            Cardinality(S) <= MaxInRange}]

NoneInRange(w) == [b \in 1..Len(w.bullets) |-> {}]

Expired(w, b) == w.state = PLAYING /\ w.bullets[b].timeToLive < 0

\* the level buttons clicked in the menu: the first two levels
MenuLevels == {0, 1}

\* the clicks of one frame: none, or a button that is shown
Clicks(w) ==
    {NoClick} \cup
    {c \in Buttons(w) : c.button = "level" => c.index \in MenuLevels}

\* one frame of the render loop: onFrame with its inputs, the delta, the
\* click, the trigger, the targets in range of each bullet and the tween
\* batches that have run out by the gsap tick
Frame(limit) ==
    /\ calls < limit
    /\ calls' = calls + 1
    /\ UNCHANGED <<targetModel, prev>>
    /\ \E delta \in FrameDeltas, click \in Clicks(World), trigger \in BOOLEAN :
         \E w3 \in {frameInput(World, delta, click, trigger)} :
           \E inRange \in InRangeChoices(w3) :
             /\ trigger => Len(bullets) < MaxBullets
             /\ trigger => Len(w3.bullets) > Len(bullets)
             /\ \A b \in DOMAIN inRange : Expired(w3, b) => inRange[b] = {}
             /\ \E w4 \in {frameBullets(w3, delta, inRange)} :
                  \E k \in 0..Len(w4.tweens) :
                    \E w \in {frameTick(w4, delta, k)} :
                      /\ Pending(w) <= MaxPending
                      /\ Commit(w, "onFrame", delta)

OnFrame == Frame(MaxFrames)

\* a setTimeout callback runs: the oldest pending respawn
TimerFire ==
    /\ timers # <<>>
    /\ \E w \in {[respawn(World, Head(timers)) EXCEPT !.timers = Tail(@)]} :
           Commit(w, "respawn", Head(timers))
    /\ UNCHANGED <<targetModel, prev, calls>>

NextFrame ==
    \/ LoadTargetModel
    \/ TimerFire
    \/ OnFrame

SpecFrame == Init /\ [][NextFrame]_vars

-----------------------------------------------------------------------------
(* The render loop left running while a level is played: after the frames   *)
(* in which the player clicks and hits, frames go on for as long as the     *)
(* level is played, with bullets fired but no target in range               *)

\* the first frames, with clicks and hits
PlayFrame == Frame(MaxPlayFrames)

\* the deltas of the later frames, bounded below by 15 s
TimeoutDeltas == {15, 60}

\* a frame of a level that is played: no button is shown, the player may fire
\* and no bullet comes within hit distance of a target
UpdateNoHit ==
    /\ state = PLAYING
    /\ UNCHANGED <<targetModel, prev, calls>>
    /\ \E delta \in TimeoutDeltas, trigger \in BOOLEAN :
         \E w3 \in {frameInput(World, delta, NoClick, trigger)} :
           /\ trigger => Len(bullets) < MaxBullets
           /\ \E w4 \in {frameBullets(w3, delta, NoneInRange(w3))} :
                \E k \in 0..Len(w4.tweens) :
                  \E w \in {frameTick(w4, delta, k)} : Commit(w, "onFrame", delta)

NextTimeout ==
    \/ LoadTargetModel
    \/ TimerFire
    \/ PlayFrame
    \/ UpdateNoHit

\* the render loop calls onFrame for every frame: a frame of a played level is
\* never put off for ever
SpecTimeout == Init /\ [][NextTimeout]_vars /\ WF_vars(UpdateNoHit)

-----------------------------------------------------------------------------
(* The render loop while a level with moving targets is played: frames of   *)
(* unequal deltas in which the player does not fire                         *)

\* the frame deltas, in seconds: a frame, and a frame twice as long
MoveDeltas == {1, 2}

\* the level buttons clicked in the menu: the levels with moving targets
MovingLevels == {i \in 0..(LevelCount - 1) : Level(i).movingTargets}

MoveClicks(w) ==
    {NoClick} \cup
    {c \in Buttons(w) : c.button = "level" => c.index \in MovingLevels}

\* what Math.random returns when a target is placed: near the right and the
\* upper bound heading for them, near the left and the lower bound heading
\* for them, in the middle
Placements ==
    { [x |-> 45, y |-> 28, dx |-> 3, dy |-> 4],
      [x |-> -45, y |-> 12, dx |-> -4, dy |-> -3],
      Centre }

Placed(w, random) == [w EXCEPT !.random = random]

\* one frame of the render loop without trigger click: onFrame with its
\* inputs, the delta, the click and the values of Math.random
MoveFrame ==
    /\ calls < MaxFrames
    /\ calls' = calls + 1
    /\ UNCHANGED <<targetModel, prev>>
    /\ \E delta \in MoveDeltas, click \in MoveClicks(World), random \in Placements :
         \E w3 \in {frameInput(Placed(World, random), delta, click, FALSE)} :
           \E w4 \in {frameBullets(w3, delta, NoneInRange(w3))} :
             \E w \in {frameTick(w4, delta, Len(w4.tweens))} :
               Commit(w, "onFrame", delta)

NextTargets ==
    \/ LoadTargetModel
    \/ MoveFrame

SpecTargets == Init /\ [][NextTargets]_vars

-----------------------------------------------------------------------------
(* Properties *)

\* the events startLevel fires: state-changed(PLAYING), then score-changed(0)
StartEvents == <<Event("state", PLAYING), Event("score", 0)>>

\* C1: for every index in [0, levelCount) and from every session state, after
\* startLevel(index) returns currentLevel = index, score = 0, state = PLAYING
\* and timeRemaining = the time limit of level index.
C1_StartLevelResets ==
    (last.op = "startLevel" /\ last.arg \in 0..(LevelCount - 1))
        => /\ currentLevel = last.arg
           /\ score = 0
           /\ state = PLAYING
           /\ timeRemaining = Level(last.arg).timeLimit

\* C1 happens: level 2 started from a completed level 0 that had a score
C1_Witness ==
    /\ last.op = "startLevel" /\ last.arg = 2
    /\ prev.state = LEVEL_COMPLETE /\ prev.score > 0 /\ prev.currentLevel = 0
    /\ timeRemaining = 45 /\ score = 0

\* C2: for every negative index and every index >= levelCount, startLevel
\* leaves the session as startLevel(0) does (level 0, score 0, PLAYING, the
\* time limit of level 0, the same events, the high scores untouched) and
\* raises no error.
C2_OutOfRangeIsLevelZero ==
    (last.op = "startLevel" /\ (last.arg < 0 \/ last.arg >= LevelCount))
        => /\ currentLevel = 0
           /\ score = 0
           /\ state = PLAYING
           /\ timeRemaining = Level(0).timeLimit
           /\ highScores = prev.highScores
           /\ events = StartEvents
           /\ ~thrown

\* C2 happens: startLevel(-1) called while level 4 is played with a score
C2_Witness ==
    /\ last.op = "startLevel" /\ last.arg = -1
    /\ prev.currentLevel = 4 /\ prev.score > 0 /\ prev.state = PLAYING
    /\ currentLevel = 0

\* C3: once a call of addScore while PLAYING has made score >= the goal of
\* the current level, on return state = LEVEL_COMPLETE and
\* highScores[currentLevel] >= score.
C3_CompletionRecorded ==
    (/\ last.op = "addScore"
     /\ prev.state = PLAYING
     /\ score >= Level(currentLevel).scoreToComplete)
        => /\ state = LEVEL_COMPLETE
           /\ Index(highScores, currentLevel) >= score

\* the latest state-changed event before position j of es (0: there is none)
LastStateEvent(es, j) ==
    LET S == {i \in 1..(j - 1) : es[i].type = "state"}
    IN IF S = {} THEN 0 ELSE CHOOSE i \in S : \A x \in S : x <= i

\* C4: score changes only while state = PLAYING: within the operations of the
\* frame loop no score-changed is fired once state-changed has announced a
\* state other than PLAYING.
C4_ScoreOnlyWhilePlaying ==
    \A j \in DOMAIN events :
        events[j].type = "score"
            => \/ LastStateEvent(events, j) = 0
               \/ events[LastStateEvent(events, j)].state = PLAYING

\* C5: in every level attempt state-changed is fired with LEVEL_COMPLETE or
\* GAME_OVER at most once in total.
C5_ExitsOncePerAttempt == exits <= 1

\* C6: timeRemaining is never negative, neither in a reachable state nor in a
\* value delivered to the time-changed observer.
C6_TimeNeverNegative ==
    /\ timeRemaining >= 0
    /\ \A j \in DOMAIN events :
           events[j].type = "time" => events[j].time >= 0

C8_NegativeRejected ==
    (last.op \in {"addScore", "updateTime"} /\ last.arg < 0)
        => /\ thrown
           /\ score = prev.score
           /\ timeRemaining = prev.timeRemaining
           /\ state = prev.state
           /\ highScores = prev.highScores

\* C9: nextLevel called in LEVEL_COMPLETE: below the last level the session
\* is as startLevel(currentLevel + 1) leaves it; on the last level the state
\* becomes MENU and currentLevel stays.
C9_NextLevel ==
    (last.op = "nextLevel" /\ prev.state = LEVEL_COMPLETE)
        => IF prev.currentLevel < LevelCount - 1
           THEN /\ currentLevel = prev.currentLevel + 1
                /\ score = 0
                /\ state = PLAYING
                /\ timeRemaining = Level(prev.currentLevel + 1).timeLimit
                /\ highScores = prev.highScores
                /\ events = StartEvents
           ELSE /\ state = MENU
                /\ currentLevel = prev.currentLevel
                /\ events = <<Event("state", MENU)>>

\* C9 happens: nextLevel after the last level has been completed
C9_Witness ==
    /\ last.op = "nextLevel"
    /\ prev.state = LEVEL_COMPLETE /\ prev.currentLevel = LevelCount - 1
    /\ state = MENU

\* C10: in one update a projectile scores at most once: no two hits of one
\* frame are hits of the same bullet.
C10_OneHitPerBullet ==
    \A i, j \in DOMAIN events :
        (i < j /\ events[i].type = "hit" /\ events[j].type = "hit")
            => events[i].hit.bullet # events[j].hit.bullet

\* C11: whenever state = MENU no projectile is live and no target is visible,
\* also once the respawn timers of earlier hits have run.
C11_MenuIsTornDown ==
    state = MENU => (bullets = <<>> /\ Visible(targets) = {})

\* C12: right after the update that times the level out (state-changed with
\* GAME_OVER fired in the frame) no projectile is live and no target is
\* visible.
C12_GameOverTearsDown ==
    (/\ last.op = "onFrame"
     /\ \E j \in DOMAIN events :
            events[j].type = "state" /\ events[j].state = GAME_OVER)
        => (bullets = <<>> /\ Visible(targets) = {})

\* C13: right after a level has started exactly targetCount targets of the
\* level are visible, whatever the size of the pool was.
C13_TargetCountVisible ==
    (last.op \in {"startLevel", "nextLevel", "restartLevel"} /\ state = PLAYING)
        => Cardinality(Visible(targets)) = Level(currentLevel).targetCount

\* C14: a callback that re-enters the controller is not overridden by the rest
\* of the outer operation: when the score-changed or time-changed observer
\* has called goToMenu (state-changed(MENU) follows its notification), the
\* state when the outer call returns is MENU.
C14_ReentrantCallStands ==
    \A j \in DOMAIN events :
        (/\ j > 1
         /\ events[j - 1].type \in {"score", "time"}
         /\ events[j].type = "state"
         /\ events[j].state = MENU)
            => state = MENU

\* C15: no call of the controller, setSetting and toggleLeftHandedMode
\* included, lowers an entry of highScores (or drops one).
C15_HighScoresNeverDrop ==
    [][/\ highScores'.isArray = highScores.isArray
       /\ Len(highScores'.items) = Len(highScores.items)
       /\ \A i \in 1..Len(highScores.items) :
              highScores'.items[i] >= highScores.items[i]]_vars

\* C15 happens: a level is completed with a score below its stored high score
\* after the settings have been changed
C15_Witness ==
    /\ last.op = "addScore"
    /\ state = LEVEL_COMPLETE
    /\ highScores.isArray
    /\ score > 0 /\ score < Index(highScores, currentLevel)
    /\ settings.leftHandedMode = JsTrue

\* a stored high-score text that holds a table of levelCount numbers
WellFormedScores(text) ==
    /\ text.kind = "json"
    /\ text.value.isArray
    /\ Len(text.value.items) = LevelCount

\* a stored settings text that holds an object with a boolean leftHandedMode
WellFormedSettings(text) ==
    /\ text.kind = "json"
    /\ "leftHandedMode" \in DOMAIN text.value
    /\ text.value.leftHandedMode \in {JsFalse, JsTrue}

\* C16: after loading, missing, unparsable and wrongly-shaped stored data have
\* been replaced by the defaults; highScores is always a table of levelCount
\* entries and no operation fails.
C16_LoadFallsBackToDefaults ==
    /\ last.op = "new" =>
          /\ ~WellFormedScores(savedScores) => highScores = DefaultHighScores
          /\ ~WellFormedSettings(savedSettings) => settings = DEFAULT_SETTINGS
    /\ highScores.isArray
    /\ Len(highScores.items) = LevelCount
    /\ ~thrown

\* C17: a level that is played and in which no further hit is scored (the
\* frames with hits are over) is eventually timed out: state = GAME_OVER with
\* timeRemaining = 0.
C17_EventuallyTimedOut ==
    (state = PLAYING /\ calls = MaxPlayFrames)
        ~> (state = GAME_OVER /\ timeRemaining = 0)

\* C17 happens: an attempt with hits below the goal has been timed out by a
\* frame without hit
C17_Witness ==
    /\ last.op = "onFrame" /\ last.arg = 15
    /\ state = GAME_OVER /\ timeRemaining = 0
    /\ score > 0
    /\ calls = MaxPlayFrames

\* C18: currentLevel is an index of the catalog in every reachable state.
C18_LevelInRange == currentLevel \in 0..(LevelCount - 1)

\* C18 happens: nextLevel called while the last level is played
C18_Witness ==
    /\ last.op = "nextLevel"
    /\ prev.state = PLAYING /\ prev.currentLevel = LevelCount - 1
    /\ currentLevel = LevelCount - 1 /\ state = MENU

\* state-changed(GAME_OVER) is among the callbacks es
TimedOut(es) ==
    \E j \in DOMAIN es : es[j].type = "state" /\ es[j].state = GAME_OVER

\* C19: in a frame whose timer decrement reaches 0 the arena is not advanced:
\* the bullets are as before the frame (none created, aged or removed) and
\* after state-changed(GAME_OVER) there is no hit and no score-changed.
C19_TimedOutFrameIsInert ==
    [][(last'.op = "onFrame" /\ TimedOut(events'))
          => /\ bullets' = bullets
             /\ \A i, j \in DOMAIN events' :
                   (/\ i < j
                    /\ events'[i].type = "state"
                    /\ events'[i].state = GAME_OVER)
                       => events'[j].type \notin {"hit", "score"}]_vars

\* C19 happens: the level times out in a frame in which a live bullet is
\* within hit distance of a visible target
C19_Witness ==
    /\ last.op = "onFrame"
    /\ TimedOut(events)
    /\ bullets # <<>>
    /\ \E j \in DOMAIN events : events[j].type = "aim"

\* the targets of the batches bs of tweens, one after the other
RECURSIVE Flatten(_)
Flatten(bs) == IF bs = <<>> THEN <<>> ELSE Head(bs) \o Flatten(Tail(bs))

\* the number of times x occurs in the sequence q
Occurrences(q, x) == Cardinality({i \in DOMAIN q : q[i] = x})

\* C20: a target that is hit is hidden when that update returns, and between
\* a hit and the respawn it is not hit again: no target has more than one
\* hit awaiting its respawn.
C20_HitTargetHiddenUntilRespawn ==
    /\ last.op = "onFrame" =>
          \A j \in DOMAIN events :
              events[j].type = "hit" => ~targets[events[j].hit.target].visible
    /\ \A t \in DOMAIN targets : Occurrences(Flatten(tweens) \o timers, t) <= 1

\* C21: the respawn of a hit target is resolved by the updates: a target that
\* is not visible becomes visible only in a step of the frame loop (an update,
\* or the level start of a click handled in it), never in between two frames.
C21_RespawnOnlyInUpdate ==
    [][(\E t \in DOMAIN targets' :
            /\ targets'[t].visible
            /\ t \in DOMAIN targets => ~targets[t].visible)
          => last'.op = "onFrame"]_vars

\* C22: a projectile whose timeToLive has fallen below 0 in an update is
\* destroyed in that update without being collision-tested: no hit of a frame
\* is the hit of a bullet whose timeToLive was below 0 at the test, and after
\* a frame of a played level no live bullet has a timeToLive below 0.
C22_ExpiredBulletIsInert ==
    last.op = "onFrame"
        => /\ \A j \in DOMAIN events :
                  events[j].type = "hit" => events[j].hit.timeToLive >= 0
           /\ (state = PLAYING /\ ~thrown)
                  => \A b \in DOMAIN bullets : bullets[b].timeToLive >= 0

\* C23: while a level is played no more than targetCount targets of the level
\* are visible and every visible target is one of the first targetCount slots
\* of the pool, also when the respawn of a hit of an earlier attempt runs.
C23_VisibleWithinTargetCount ==
    state = PLAYING
        => /\ Cardinality(Visible(targets)) <= getCurrentLevelConfig(World).targetCount
           /\ \A t \in Visible(targets) :
                  t <= getCurrentLevelConfig(World).targetCount

\* C24: in every state of the frame loop a completed level has its goal
\* reached with time left, and a level that is over has no time left and its
\* goal not reached.
C24_ExitStatesConsistent ==
    /\ state = LEVEL_COMPLETE
          => /\ score >= getCurrentLevelConfig(World).scoreToComplete
             /\ timeRemaining > 0
    /\ state = GAME_OVER
          => /\ timeRemaining = 0
             /\ score < getCurrentLevelConfig(World).scoreToComplete

\* C25: after every update of a played level with moving targets, a visible
\* moving target that is outside the x-range (the y-range) of the arena has a
\* direction whose x (y) component points back to the arena.
C25_OutsideTargetHeadsBack ==
    (/\ last.op = "onFrame"
     /\ state = PLAYING
     /\ getCurrentLevelConfig(World).movingTargets
     /\ targets # <<>>
     /\ targets[1].visible
     /\ motion.isMoving)
        => /\ motion.x > MaxX => motion.dx < 0
           /\ motion.x < MinX => motion.dx > 0
           /\ motion.y > MaxY => motion.dy < 0
           /\ motion.y < MinY => motion.dy > 0

=============================================================================
